---- MODULE Spec2Model ----
(***************************************************************************)
(* Inventory ledger of src/main.py: InventoryItem records mutated by four  *)
(* InventoryOperation classes (AddItem, RemoveItem, TransferItem,          *)
(* AdjustPrice) and the InventoryManager that authorizes, executes,        *)
(* records and undoes them.                                                *)
(*                                                                         *)
(* Decimal values (amounts, prices) are held as integers counting units of *)
(* 1/Scale, so 57 is 5.7 when Scale is 10.  A price is a tuple: <<p>> for  *)
(* the Decimal p, <<>> for Python's None.  A location is a string, None    *)
(* for Python's None.                                                      *)
(***************************************************************************)
EXTENDS Integers, Sequences, FiniteSets, TLC

VARIABLES
    items,      \* item id -> InventoryItem fields (name, amount, price, location)
    ops,        \* operation instance id -> the instance's attributes
    history,    \* InventoryManager.history: sequence of (operation, item, amount)
    stdout,     \* the lines printed so far
    log         \* the calls made so far, each with the state it started from

vars == <<items, ops, history, stdout, log>>

----------------------------------------------------------------------------
(* Bounds of the model *)

Scale == 10        \* a Decimal d is held as the integer d * Scale
MaxCalls == 3      \* calls per run of Spec
MaxDeep == 5       \* calls per run of SpecDeep
MaxReuse == 4      \* calls per run of SpecReuse
MaxLoc == 4        \* calls per run of SpecLoc
MaxRound == 6      \* calls per run of SpecRound
MaxConc == 6       \* steps per run of SpecConc
MaxDirect == 2     \* calls per run of SpecDirect

----------------------------------------------------------------------------
(* Values *)

None == "None"
NoneDec == <<>>
Dec(p) == <<p>>

MainStorage == "Main Storage"
AnotherStorage == "Another Storage"
Locations == {MainStorage, AnotherStorage}

DeniedMsg == "Error! Only admins can adjust prices"

ItemIds == {"i1", "i2"}
Roles == {"staff", "admin"}
Amounts == {57, -23}
OpIds == {"add", "rem", "tr1", "adj1"}

\* amount // 1: the integer part rounded down
Trunc_floor(amount) == amount \div Scale

\* int(amount): the integer part of a Decimal, rounded toward zero
Trunc(amount) ==
    IF amount >= 0 THEN amount \div Scale ELSE -((-amount) \div Scale)

\* InventoryItem.__init__: the location starts as "Main Storage"
InventoryItem(name, amount, price) ==
    [name |-> name, amount |-> amount, price |-> Dec(price), location |-> MainStorage]

\* The operation instances the caller has constructed
AddItem == [cls |-> "AddItem", new_location |-> None, old_location |-> None, old_price |-> NoneDec]

RemoveItem == [cls |-> "RemoveItem", new_location |-> None, old_location |-> None, old_price |-> NoneDec]

TransferItem(new_location) ==
    [cls |-> "TransferItem", new_location |-> new_location, old_location |-> None, old_price |-> NoneDec]

AdjustPrice == [cls |-> "AdjustPrice", new_location |-> None, old_location |-> None, old_price |-> NoneDec]

InitItems ==
    [i \in ItemIds |-> IF i = "i1" THEN InventoryItem("Widget", 10, 100 * Scale)
                                   ELSE InventoryItem("Gadget", 1, 2 * Scale + 5)]

InitOps ==
    [o \in OpIds |->
        CASE o = "add" -> AddItem
          [] o = "rem" -> RemoveItem
          [] o = "tr1" -> TransferItem(AnotherStorage)
          [] OTHER -> AdjustPrice]

----------------------------------------------------------------------------
(* The operations: each takes the item record and the instance record and  *)
(* gives the pair after the call, with raised set when Python raises.      *)

Result(item, op, raised) == [item |-> item, op |-> op, raised |-> raised]

\* adds to the price instead of the quantity
AddItem_execute_price(item, op, amount) ==
    Result([item EXCEPT !.price = Dec(@[1] + Trunc(amount))], op, FALSE)

AddItem_execute(item, op, amount) ==
    Result([item EXCEPT !.amount = @ + Trunc(amount)], op, FALSE)

\* rounds the amount down (amount // 1) instead of toward zero
AddItem_undo_floor(item, op, amount) ==
    Result([item EXCEPT !.amount = @ - (amount \div Scale)], op, FALSE)

AddItem_undo(item, op, amount) ==
    Result([item EXCEPT !.amount = @ - Trunc(amount)], op, FALSE)

\* refuses a removal that would leave a negative quantity
RemoveItem_execute_guarded(item, op, amount) ==
    IF item.amount - Trunc(amount) < 0
    THEN Result(item, op, FALSE)
    ELSE Result([item EXCEPT !.amount = @ - Trunc(amount)], op, FALSE)

RemoveItem_execute(item, op, amount) ==
    Result([item EXCEPT !.amount = @ - Trunc(amount)], op, FALSE)

\* rounds the amount down (amount // 1) instead of toward zero
RemoveItem_undo_floor(item, op, amount) ==
    Result([item EXCEPT !.amount = @ + (amount \div Scale)], op, FALSE)

RemoveItem_undo(item, op, amount) ==
    Result([item EXCEPT !.amount = @ + Trunc(amount)], op, FALSE)

\* moves the item without saving where it was
TransferItem_execute_nosave(item, op, amount) ==
    Result([item EXCEPT !.location = op.new_location], op, FALSE)

TransferItem_execute(item, op, amount) ==
    Result([item EXCEPT !.location = op.new_location],
           [op EXCEPT !.old_location = item.location], FALSE)

\* writes the target back instead of the saved location
TransferItem_undo_target(item, op, amount) ==
    Result([item EXCEPT !.location = op.new_location], op, FALSE)

\* writes None: the saved location read from an attribute that was never set
TransferItem_undo_none(item, op, amount) ==
    Result([item EXCEPT !.location = None], op, FALSE)

TransferItem_undo(item, op, amount) ==
    Result([item EXCEPT !.location = op.old_location], op, FALSE)

\* adds the amount without saving the old price
AdjustPrice_execute_nosave(item, op, amount) ==
    IF item.price = NoneDec
    THEN Result(item, op, TRUE)
    ELSE Result([item EXCEPT !.price = Dec(item.price[1] + amount)], op, FALSE)

\* saves the price only while nothing is saved yet
AdjustPrice_execute_keepfirst(item, op, amount) ==
    IF item.price = NoneDec
    THEN Result(item, [op EXCEPT !.old_price = item.price], TRUE)
    ELSE Result([item EXCEPT !.price = Dec(item.price[1] + amount)],
                [op EXCEPT !.old_price = IF @ = NoneDec THEN item.price ELSE @], FALSE)

\* adds int(amount), as AddItem does, instead of the amount
AdjustPrice_execute_truncated(item, op, amount) ==
    IF item.price = NoneDec
    THEN Result(item, [op EXCEPT !.old_price = item.price], TRUE)
    ELSE Result([item EXCEPT !.price = Dec(item.price[1] + Trunc(amount) * Scale)],
                [op EXCEPT !.old_price = item.price], FALSE)

\* item.price += amount raises TypeError when the price is None; old_price
\* has been assigned by then.
AdjustPrice_execute(item, op, amount) ==
    IF item.price = NoneDec
    THEN Result(item, [op EXCEPT !.old_price = item.price], TRUE)
    ELSE Result([item EXCEPT !.price = Dec(item.price[1] + amount)],
                [op EXCEPT !.old_price = item.price], FALSE)

AdjustPrice_undo(item, op, amount) ==
    Result([item EXCEPT !.price = op.old_price], op, FALSE)

\* operation.execute(item, amount), dispatched on the instance's class
execute(item, op, amount) ==
    CASE op.cls = "AddItem" -> AddItem_execute(item, op, amount)
      [] op.cls = "RemoveItem" -> RemoveItem_execute(item, op, amount)
      [] op.cls = "TransferItem" -> TransferItem_execute(item, op, amount)
      [] op.cls = "AdjustPrice" -> AdjustPrice_execute(item, op, amount)

\* operation.undo(item, amount), dispatched on the instance's class
undo(item, op, amount) ==
    CASE op.cls = "AddItem" -> AddItem_undo(item, op, amount)
      [] op.cls = "RemoveItem" -> RemoveItem_undo(item, op, amount)
      [] op.cls = "TransferItem" -> TransferItem_undo(item, op, amount)
      [] op.cls = "AdjustPrice" -> AdjustPrice_undo(item, op, amount)

----------------------------------------------------------------------------
(* The calls *)

Snapshot == [items |-> items, ops |-> ops, history |-> history]

\* One entry of the call log: the call, what it printed, whether it raised,
\* what it returned (every method returns None) and the state it started from.
Call(kind, role, o, i, amount, printed, raised) ==
    [kind |-> kind, role |-> role, operation |-> o, item |-> i, amount |-> amount,
     printed |-> printed, raised |-> raised, ret |-> None, pre |-> Snapshot]

\* the check applied to every operation class
Denied_nonadmin(role, o) == role # "admin"

\* the check left out: every call is executed
Denied_missing(role, o) == FALSE

\* the check at the head of perform_operation
Denied(role, o) == ops[o].cls = "AdjustPrice" /\ role # "admin"

\* the denied branch prints nothing
DeniedOutput_silent == <<>>

\* what the denied branch prints
DeniedOutput == <<DeniedMsg>>

\* the tuple appended to the history
HistoryEntry(o, i, amount) == [operation |-> o, item |-> i, amount |-> amount]

\* insert(0, entry): the entry put in front
Push_front(h, e) == <<e>> \o h

\* self.history.append(entry)
Push(h, e) == Append(h, e)

\* pop(0): the history without its first entry
Pop_first(h) == SubSeq(h, 2, Len(h))

\* self.history.pop(): the history without its last entry
Pop(h) == SubSeq(h, 1, Len(h) - 1)

\* the append placed after the if/else: a denied call is recorded too
perform_operation_records_denied(role, o, i, amount) ==
    IF Denied(role, o)
    THEN /\ stdout' = stdout \o DeniedOutput
         /\ log' = Append(log, Call("perform", role, o, i, amount, DeniedOutput, FALSE))
         /\ history' = Push(history, HistoryEntry(o, i, amount))
         /\ UNCHANGED <<items, ops>>
    ELSE LET r == execute(items[i], ops[o], amount)
         IN  /\ items' = [items EXCEPT ![i] = r.item]
             /\ ops' = [ops EXCEPT ![o] = r.op]
             /\ history' = IF r.raised THEN history
                           ELSE Push(history, HistoryEntry(o, i, amount))
             /\ log' = Append(log, Call("perform", role, o, i, amount, <<>>, r.raised))
             /\ UNCHANGED stdout

\* InventoryManager.perform_operation(user, operation, item, amount)
perform_operation(role, o, i, amount) ==
    IF Denied(role, o)
    THEN /\ stdout' = stdout \o DeniedOutput
         /\ log' = Append(log, Call("perform", role, o, i, amount, DeniedOutput, FALSE))
         /\ UNCHANGED <<items, ops, history>>
    ELSE LET r == execute(items[i], ops[o], amount)
         IN  /\ items' = [items EXCEPT ![i] = r.item]
             /\ ops' = [ops EXCEPT ![o] = r.op]
             /\ history' = IF r.raised THEN history
                           ELSE Push(history, HistoryEntry(o, i, amount))
             /\ log' = Append(log, Call("perform", role, o, i, amount, <<>>, r.raised))
             /\ UNCHANGED stdout

\* pops the last entry but reverses it on the item of the first entry
undo_last_operation_first_item ==
    IF history # <<>>
    THEN LET e == history[Len(history)]
             target == history[1].item
             r == undo(items[target], ops[e.operation], e.amount)
         IN  /\ history' = Pop(history)
             /\ items' = [items EXCEPT ![target] = r.item]
             /\ ops' = [ops EXCEPT ![e.operation] = r.op]
             /\ log' = Append(log, Call("undo", "-", e.operation, e.item, e.amount, <<>>, r.raised))
             /\ UNCHANGED stdout
    ELSE /\ log' = Append(log, Call("undo", "-", "-", "-", 0, <<>>, FALSE))
         /\ UNCHANGED <<items, ops, history, stdout>>

\* without the emptiness test: list.pop() raises IndexError on an empty list
undo_last_operation_unguarded ==
    IF history # <<>>
    THEN LET e == history[Len(history)]
             r == undo(items[e.item], ops[e.operation], e.amount)
         IN  /\ history' = Pop(history)
             /\ items' = [items EXCEPT ![e.item] = r.item]
             /\ ops' = [ops EXCEPT ![e.operation] = r.op]
             /\ log' = Append(log, Call("undo", "-", e.operation, e.item, e.amount, <<>>, r.raised))
             /\ UNCHANGED stdout
    ELSE /\ log' = Append(log, Call("undo", "-", "-", "-", 0, <<>>, TRUE))
         /\ UNCHANGED <<items, ops, history, stdout>>

\* InventoryManager.undo_last_operation()
undo_last_operation ==
    IF history # <<>>
    THEN LET e == history[Len(history)]
             r == undo(items[e.item], ops[e.operation], e.amount)
         IN  /\ history' = Pop(history)
             /\ items' = [items EXCEPT ![e.item] = r.item]
             /\ ops' = [ops EXCEPT ![e.operation] = r.op]
             /\ log' = Append(log, Call("undo", "-", e.operation, e.item, e.amount, <<>>, r.raised))
             /\ UNCHANGED stdout
    ELSE /\ log' = Append(log, Call("undo", "-", "-", "-", 0, <<>>, FALSE))
         /\ UNCHANGED <<items, ops, history, stdout>>

\* operation.execute(item, amount) called by the caller itself
direct_execute(o, i, amount) ==
    LET r == execute(items[i], ops[o], amount)
    IN  /\ items' = [items EXCEPT ![i] = r.item]
        /\ ops' = [ops EXCEPT ![o] = r.op]
        /\ log' = Append(log, Call("execute", "-", o, i, amount, <<>>, r.raised))
        /\ UNCHANGED <<history, stdout>>

\* operation.undo(item, amount) called by the caller itself
direct_undo(o, i, amount) ==
    LET r == undo(items[i], ops[o], amount)
    IN  /\ items' = [items EXCEPT ![i] = r.item]
        /\ ops' = [ops EXCEPT ![o] = r.op]
        /\ log' = Append(log, Call("reverse", "-", o, i, amount, <<>>, r.raised))
        /\ UNCHANGED <<history, stdout>>

----------------------------------------------------------------------------
(* Specifications *)

\* The state after construction: two items, the operation instances, an
\* InventoryManager with an empty history.
Init ==
    /\ items = InitItems
    /\ ops = InitOps
    /\ history = <<>>
    /\ stdout = <<>>
    /\ log = <<>>

Perform ==
    /\ Len(log) < MaxCalls
    /\ \E role \in Roles, o \in OpIds, i \in ItemIds, amount \in Amounts :
           perform_operation(role, o, i, amount)

UndoLast ==
    /\ Len(log) < MaxCalls
    /\ undo_last_operation

Next == Perform \/ UndoLast

\* Any role, operation instance, item and amount, MaxCalls calls.
Spec == Init /\ [][Next]_vars

\* Longer runs over fewer inputs: transfers and price adjustments of 50.00.
DeepOps == {"tr1", "adj1"}
DeepAmounts == {50 * Scale}

DeepPerform ==
    /\ Len(log) < MaxDeep
    /\ \E role \in Roles, o \in DeepOps, i \in ItemIds, amount \in DeepAmounts :
           perform_operation(role, o, i, amount)

DeepUndoLast ==
    /\ Len(log) < MaxDeep
    /\ undo_last_operation

DeepNext == DeepPerform \/ DeepUndoLast

SpecDeep == Init /\ [][DeepNext]_vars

\* Runs long enough to undo two entries, by an admin, every operation
\* instance free to be used again.
ReuseRoles == {"admin"}

ReusePerform ==
    /\ Len(log) < MaxReuse
    /\ \E role \in ReuseRoles, o \in OpIds, i \in ItemIds, amount \in Amounts :
           perform_operation(role, o, i, amount)

ReuseUndoLast ==
    /\ Len(log) < MaxReuse
    /\ undo_last_operation

ReuseNext == ReusePerform \/ ReuseUndoLast

SpecReuse == Init /\ [][ReuseNext]_vars

\* Transfers by staff, one of them to a place that is no storage location:
\* TransferItem.__init__ takes any string.
UnknownStorage == "Nowhere"
LocOps == {"tr1", "tr2"}
LocRoles == {"staff"}
LocAmounts == {0}

InitLocOps ==
    [o \in LocOps |-> IF o = "tr1" THEN TransferItem(AnotherStorage)
                                   ELSE TransferItem(UnknownStorage)]

InitLoc ==
    /\ items = InitItems
    /\ ops = InitLocOps
    /\ history = <<>>
    /\ stdout = <<>>
    /\ log = <<>>

LocPerform ==
    /\ Len(log) < MaxLoc
    /\ \E role \in LocRoles, o \in LocOps, i \in ItemIds, amount \in LocAmounts :
           perform_operation(role, o, i, amount)

LocUndoLast ==
    /\ Len(log) < MaxLoc
    /\ undo_last_operation

LocNext == LocPerform \/ LocUndoLast

SpecLoc == InitLoc /\ [][LocNext]_vars

\* Runs of three operations and their three undos, by an admin, with a
\* negative fractional amount.
RoundOps == {"add", "tr1", "adj1"}
RoundAmounts == {-23}

RoundPerform ==
    /\ Len(log) < MaxRound
    /\ \E role \in ReuseRoles, o \in RoundOps, i \in ItemIds, amount \in RoundAmounts :
           perform_operation(role, o, i, amount)

RoundUndoLast ==
    /\ Len(log) < MaxRound
    /\ undo_last_operation

RoundNext == RoundPerform \/ RoundUndoLast

SpecRound == Init /\ [][RoundNext]_vars

\* Two threads on one manager, one calling perform_operation and one calling
\* undo_last_operation.  Neither method takes a lock, so the threads can be
\* switched between the statements of a call: perform_operation is the test
\* and the execute (lines 217-220), then the append (line 221);
\* undo_last_operation is the test and the pop (lines 227-228), then the undo
\* (line 229).  The log holds one record per step.
KindOf(k) == log[k].kind

\* the execute whose append has not run yet (0 when there is none)
InFlightApply ==
    LET S == {j \in DOMAIN log :
                 KindOf(j) = "apply" /\ \A m \in (j + 1)..Len(log) : KindOf(m) # "append"}
    IN  IF S = {} THEN 0 ELSE CHOOSE j \in S : TRUE

\* the pop whose undo has not run yet (0 when there is none)
InFlightPop ==
    LET S == {j \in DOMAIN log :
                 KindOf(j) = "pop" /\ \A m \in (j + 1)..Len(log) : KindOf(m) # "unapply"}
    IN  IF S = {} THEN 0 ELSE CHOOSE j \in S : TRUE

\* perform_operation up to and including operation.execute(item, amount)
perform_execute_step(role, o, i, amount) ==
    IF Denied(role, o)
    THEN /\ stdout' = stdout \o DeniedOutput
         /\ log' = Append(log, Call("perform", role, o, i, amount, DeniedOutput, FALSE))
         /\ UNCHANGED <<items, ops, history>>
    ELSE LET r == execute(items[i], ops[o], amount)
         IN  /\ items' = [items EXCEPT ![i] = r.item]
             /\ ops' = [ops EXCEPT ![o] = r.op]
             /\ log' = Append(log, Call(IF r.raised THEN "perform" ELSE "apply",
                                        role, o, i, amount, <<>>, r.raised))
             /\ UNCHANGED <<history, stdout>>

\* the append computed from the history read when the call began
perform_append_step_stale(j) ==
    /\ history' = Push(log[j].pre.history, HistoryEntry(log[j].operation, log[j].item, log[j].amount))
    /\ log' = Append(log, Call("append", log[j].role, log[j].operation, log[j].item,
                               log[j].amount, <<>>, FALSE))
    /\ UNCHANGED <<items, ops, stdout>>

\* self.history.append((operation, item, amount)) of the call whose execute was step j
perform_append_step(j) ==
    /\ history' = Push(history, HistoryEntry(log[j].operation, log[j].item, log[j].amount))
    /\ log' = Append(log, Call("append", log[j].role, log[j].operation, log[j].item,
                               log[j].amount, <<>>, FALSE))
    /\ UNCHANGED <<items, ops, stdout>>

\* undo_last_operation up to and including self.history.pop()
undo_pop_step ==
    IF history # <<>>
    THEN LET e == history[Len(history)]
         IN  /\ history' = Pop(history)
             /\ log' = Append(log, Call("pop", "-", e.operation, e.item, e.amount, <<>>, FALSE))
             /\ UNCHANGED <<items, ops, stdout>>
    ELSE /\ log' = Append(log, Call("undo", "-", "-", "-", 0, <<>>, FALSE))
         /\ UNCHANGED <<items, ops, history, stdout>>

\* operation.undo(item, amount) of the call whose pop was step j
undo_reverse_step(j) ==
    LET r == undo(items[log[j].item], ops[log[j].operation], log[j].amount)
    IN  /\ items' = [items EXCEPT ![log[j].item] = r.item]
        /\ ops' = [ops EXCEPT ![log[j].operation] = r.op]
        /\ log' = Append(log, Call("unapply", "-", log[j].operation, log[j].item,
                                   log[j].amount, <<>>, r.raised))
        /\ UNCHANGED <<history, stdout>>

ConcOps == {"add", "tr1", "adj1"}
ConcAmounts == {57}

ConcExecute ==
    /\ Len(log) < MaxConc
    /\ InFlightApply = 0
    /\ \E role \in Roles, o \in ConcOps, i \in ItemIds, amount \in ConcAmounts :
           perform_execute_step(role, o, i, amount)

ConcAppend ==
    /\ Len(log) < MaxConc
    /\ InFlightApply # 0
    /\ perform_append_step(InFlightApply)

ConcPop ==
    /\ Len(log) < MaxConc
    /\ InFlightPop = 0
    /\ undo_pop_step

ConcReverse ==
    /\ Len(log) < MaxConc
    /\ InFlightPop # 0
    /\ undo_reverse_step(InFlightPop)

ConcNext == ConcExecute \/ ConcAppend \/ ConcPop \/ ConcReverse

SpecConc == Init /\ [][ConcNext]_vars

\* The operations called without the manager, from items in any state.
DirectItemStates ==
    [name : {"Widget"}, amount : {0, 10}, price : {Dec(100 * Scale), Dec(-5)},
     location : Locations]

InitDirect ==
    /\ items \in [ItemIds -> DirectItemStates]
    /\ items["i2"] = [name |-> "Widget", amount |-> 0, price |-> Dec(-5), location |-> MainStorage]
    /\ ops = InitOps
    /\ history = <<>>
    /\ stdout = <<>>
    /\ log = <<>>

DirectExecute ==
    /\ Len(log) < MaxDirect
    /\ \E o \in OpIds, i \in ItemIds, amount \in Amounts : direct_execute(o, i, amount)

DirectUndo ==
    /\ Len(log) < MaxDirect
    /\ \E o \in OpIds, i \in ItemIds, amount \in Amounts : direct_undo(o, i, amount)

DirectNext == DirectExecute \/ DirectUndo

SpecDirect == InitDirect /\ [][DirectNext]_vars

----------------------------------------------------------------------------
(* Reading the call log *)

Calls == DOMAIN log

\* the state a call left behind
PostItems(k) == IF k = Len(log) THEN items ELSE log[k + 1].pre.items
PostOps(k) == IF k = Len(log) THEN ops ELSE log[k + 1].pre.ops
PostHistory(k) == IF k = Len(log) THEN history ELSE log[k + 1].pre.history

ClassOf(k) == log[k].pre.ops[log[k].operation].cls

IsPerform(k) == log[k].kind = "perform"
IsUndo(k) == log[k].kind = "undo"
\* a Reprice asked for by an actor who is not an admin
NonAdminReprice(k) == IsPerform(k) /\ ClassOf(k) = "AdjustPrice" /\ log[k].role # "admin"
\* a perform_operation call that is not such a call
Authorized(k) == IsPerform(k) /\ ~NonAdminReprice(k)

\* the last call before call k that is not a denied Reprice (0 when there is none)
LastEffective(k) ==
    LET S == {j \in 1..(k - 1) : ~NonAdminReprice(j)}
    IN  IF S = {} THEN 0 ELSE CHOOSE j \in S : \A m \in S : m <= j

EntryOf(k) == HistoryEntry(log[k].operation, log[k].item, log[k].amount)

\* the call that appended the entry an undo (call k, on a non-empty history) pops
Origin(k) ==
    LET S == {j \in 1..(k - 1) :
                 /\ Authorized(j) /\ ~log[j].raised
                 /\ Len(log[j].pre.history) = Len(log[k].pre.history) - 1}
    IN  CHOOSE j \in S : \A m \in S : m <= j

\* instance o was executed by a call after call j and before call k
Reexecuted(o, j, k) ==
    \E m \in (j + 1)..(k - 1) : Authorized(m) /\ log[m].operation = o

UndoesEntry(k) == IsUndo(k) /\ log[k].pre.history # <<>>

\* the undo of call k leaves item i with the fields it had when call j began,
\* as far as the class of the undone operation goes
RestoresPreApply(k, j, e) ==
    LET cls == log[k].pre.ops[e.operation].cls
        now == PostItems(k)[e.item]
        was == log[j].pre.items[e.item]
    IN  CASE cls = "TransferItem" -> now.location = was.location
          [] cls = "AdjustPrice" -> now.price = was.price
          [] OTHER -> now.amount = was.amount

\* the undo of call k applies the arithmetic inverse of an AddItem / RemoveItem entry
ArithmeticInverse(k, e) ==
    LET cls == log[k].pre.ops[e.operation].cls
        now == PostItems(k)[e.item]
        before == log[k].pre.items[e.item]
    IN  /\ cls = "AddItem" => now.amount = before.amount - Trunc(e.amount)
        /\ cls = "RemoveItem" => now.amount = before.amount + Trunc(e.amount)

\* what a caller sees of a call: the value returned, a fault, the lines printed
Observed(k) == [ret |-> log[k].ret, raised |-> log[k].raised, printed |-> log[k].printed]

UndoOnEmpty(k) == IsUndo(k) /\ log[k].pre.history = <<>>

----------------------------------------------------------------------------
(* The claims *)

\* C1: a Reprice (AdjustPrice) asked for by an actor whose role is not admin
\* mutates nothing: every item field, the history and every operation
\* instance's saved state (the Reprice instance's old_price included) are as
\* they were before the call.
C1_DeniedRepriceMutatesNothing ==
    \A k \in Calls :
        NonAdminReprice(k) =>
            /\ PostItems(k) = log[k].pre.items
            /\ PostHistory(k) = log[k].pre.history
            /\ PostOps(k) = log[k].pre.ops

\* a denied Reprice on an instance that holds a saved price, with a history
C1_Witness ==
    \E k \in Calls :
        /\ NonAdminReprice(k)
        /\ log[k].pre.history # <<>>
        /\ log[k].pre.ops[log[k].operation].old_price # NoneDec
        /\ log[k].pre.ops[log[k].operation].old_price # log[k].pre.items[log[k].item].price

\* C2: an undo_last_operation that follows N >= 1 successfully applied
\* operations with no undo since the N-th restores the N-th operation's item
\* to the state it had just before the N-th was applied, and removes exactly
\* the N-th entry from the history.
C2_UndoRestoresLastApplied ==
    \A k \in Calls :
        (IsUndo(k) /\ LastEffective(k) # 0) =>
            LET j == LastEffective(k)
            IN  (Authorized(j) /\ ~log[j].raised) =>
                    /\ PostItems(k)[log[j].item] = log[j].pre.items[log[j].item]
                    /\ log[k].pre.history = Append(log[j].pre.history, EntryOf(j))
                    /\ PostHistory(k) = log[j].pre.history

\* two operations applied, the second changed its item, then the undo
C2_Witness ==
    /\ Len(log) >= 3
    /\ Authorized(1) /\ Authorized(2) /\ IsUndo(3)
    /\ PostItems(2)[log[2].item] # log[2].pre.items[log[2].item]
    /\ PostItems(3)[log[2].item] = log[2].pre.items[log[2].item]

\* C3 as stated: in every reachable state, reuse of an operation instance
\* included, undo_last_operation on a non-empty history reverses the last
\* entry with the recorded item and amount and restores the pre-apply state of
\* that entry (location / price for Relocate / Reprice, the arithmetic inverse
\* for AddStock / RemoveStock).
C3_Original ==
    \A k \in Calls :
        UndoesEntry(k) =>
            LET e == log[k].pre.history[Len(log[k].pre.history)]
            IN  /\ \A i \in ItemIds \ {e.item} : PostItems(k)[i] = log[k].pre.items[i]
                /\ ArithmeticInverse(k, e)
                /\ RestoresPreApply(k, Origin(k), e)

\* C3 as amended: the same, where for Relocate / Reprice the pre-apply
\* location / price is restored provided the entry's operation instance has
\* not been executed again since the entry was recorded.
C3_UndoRestoresUnlessReexecuted ==
    \A k \in Calls :
        UndoesEntry(k) =>
            LET e == log[k].pre.history[Len(log[k].pre.history)]
                j == Origin(k)
            IN  /\ \A i \in ItemIds \ {e.item} : PostItems(k)[i] = log[k].pre.items[i]
                /\ ArithmeticInverse(k, e)
                /\ ~Reexecuted(e.operation, j, k) => RestoresPreApply(k, j, e)

\* an undo of a transfer or price entry recorded two or more calls earlier,
\* its instance not executed since, that changes the item back
C3_Witness ==
    \E k \in Calls :
        /\ UndoesEntry(k)
        /\ Origin(k) < k - 1
        /\ LET e == log[k].pre.history[Len(log[k].pre.history)]
           IN  /\ log[k].pre.ops[e.operation].cls \in {"TransferItem", "AdjustPrice"}
               /\ ~Reexecuted(e.operation, Origin(k), k)
               /\ PostItems(k)[e.item] # log[k].pre.items[e.item]
               /\ PostItems(k)[e.item] = log[Origin(k)].pre.items[e.item]

\* C4: undo_last_operation on an empty history changes nothing (items,
\* operation instances, history) and raises no fault.
C4_UndoOnEmptyIsNoOp ==
    \A k \in Calls :
        (IsUndo(k) /\ log[k].pre.history = <<>>) =>
            /\ PostItems(k) = log[k].pre.items
            /\ PostOps(k) = log[k].pre.ops
            /\ PostHistory(k) = <<>>
            /\ ~log[k].raised

\* an undo on a history emptied by an earlier undo, an instance holding a saved value
C4_Witness ==
    \E k \in Calls :
        /\ IsUndo(k)
        /\ log[k].pre.history = <<>>
        /\ log[k].pre.ops # InitOps

C6_AdminReprice ==
    \A k \in Calls :
        (IsPerform(k) /\ ClassOf(k) = "AdjustPrice" /\ log[k].role = "admin") =>
            LET i == log[k].item
                old == log[k].pre.items[i].price
            IN  /\ PostItems(k)[i].price = Dec(old[1] + log[k].amount)
                /\ PostHistory(k) = Append(log[k].pre.history, EntryOf(k))
                /\ (k < Len(log) /\ IsUndo(k + 1)) => PostItems(k + 1)[i].price = old

\* an admin Reprice by a fractional amount, then the undo
C6_Witness ==
    \E k \in Calls :
        /\ IsPerform(k) /\ ClassOf(k) = "AdjustPrice" /\ log[k].role = "admin"
        /\ Trunc(log[k].amount) * Scale # log[k].amount
        /\ k < Len(log) /\ IsUndo(k + 1)
        /\ PostItems(k)[log[k].item].price # log[k].pre.items[log[k].item].price

\* C7: round trip: execute(item, amount) immediately followed by
\* undo(item, amount) on the same instance leaves the item as it was before
\* the execute, for every class.
C7_RoundTrip ==
    \A k \in Calls :
        (/\ k > 1
         /\ log[k].kind = "reverse" /\ log[k - 1].kind = "execute"
         /\ log[k].operation = log[k - 1].operation
         /\ log[k].item = log[k - 1].item
         /\ log[k].amount = log[k - 1].amount
         /\ ~log[k - 1].raised) =>
            PostItems(k) = log[k - 1].pre.items

\* a RemoveItem round trip with a negative fractional amount that changed the item
C7_Witness ==
    /\ Len(log) >= 2
    /\ log[2].kind = "reverse" /\ log[1].kind = "execute"
    /\ log[2].operation = log[1].operation /\ log[2].item = log[1].item
    /\ log[2].amount = log[1].amount
    /\ log[1].pre.ops[log[1].operation].cls = "RemoveItem"
    /\ log[1].amount < 0
    /\ PostItems(1) # log[1].pre.items
    /\ PostItems(2) = log[1].pre.items

\* C8: a denied Reprice leaves no trace in the undo history: attempted after
\* a sequence of successful operations, the next undo reverses the most recent
\* successful one (its item is back to the state before it, its entry gone)
\* and the undo after that reverses the one before it.
C8_DeniedLeavesNoTrace ==
    \A k \in Calls :
        (/\ NonAdminReprice(k)
         /\ \A m \in 1..(k - 1) : IsPerform(m)
         /\ k < Len(log) /\ IsUndo(k + 1)) =>
            LET j1 == LastEffective(k)
                j2 == IF j1 = 0 THEN 0 ELSE LastEffective(j1)
            IN  /\ j1 = 0 => UndoOnEmpty(k + 1)
                /\ j1 # 0 =>
                       /\ PostHistory(k + 1) = log[j1].pre.history
                       /\ PostItems(k + 1) = log[j1].pre.items
                /\ (j2 # 0 /\ k + 1 < Len(log) /\ IsUndo(k + 2)) =>
                       /\ PostHistory(k + 2) = log[j2].pre.history
                       /\ log[j2].operation # log[j1].operation =>
                              PostItems(k + 2) = log[j2].pre.items

\* the scenario: Relocate, admin Reprice of 50.00, staff Reprice denied, undo
\* (price 150.00 back to 100.00), undo (location back to the default)
C8_Witness ==
    /\ Len(log) = 5
    /\ Authorized(1) /\ ClassOf(1) = "TransferItem" /\ log[1].item = "i1"
    /\ Authorized(2) /\ ClassOf(2) = "AdjustPrice" /\ log[2].item = "i1"
    /\ NonAdminReprice(3)
    /\ IsUndo(4) /\ IsUndo(5)
    /\ log[4].pre.items["i1"].price = Dec(150 * Scale)
    /\ log[5].pre.items["i1"].price = Dec(100 * Scale)
    /\ log[5].pre.items["i1"].location = AnotherStorage
    /\ items["i1"].location = MainStorage
    /\ history = <<>>

\* C9: AddItem, RemoveItem and TransferItem are permitted for every role: the
\* call applies the operation to the item and appends exactly one entry
\* (operation, item, amount) after the earlier ones.
C9_OtherVariantsAlwaysApplied ==
    \A k \in Calls :
        (IsPerform(k) /\ ClassOf(k) # "AdjustPrice") =>
            LET i == log[k].item
                was == log[k].pre.items[i]
                now == PostItems(k)[i]
                cls == ClassOf(k)
            IN  /\ cls = "AddItem" => now.amount = was.amount + Trunc(log[k].amount)
                /\ cls = "RemoveItem" => now.amount = was.amount - Trunc(log[k].amount)
                /\ cls = "TransferItem" =>
                       now.location = log[k].pre.ops[log[k].operation].new_location
                /\ PostHistory(k) = Append(log[k].pre.history, EntryOf(k))
                /\ log[k].printed = <<>>

\* a staff call of each of the three classes, the last one after two entries
C9_Witness ==
    /\ Len(log) = 3
    /\ \A k \in Calls : IsPerform(k) /\ log[k].role = "staff"
    /\ {ClassOf(k) : k \in Calls} = {"AddItem", "RemoveItem", "TransferItem"}
    /\ Len(history) = 3

\* C10: undo_last_operation never pushes: on a non-empty history it removes
\* the last entry only, and there is no redo: the history grows only by the
\* entry of a perform_operation call.
C10_UndoOnlyPops ==
    \A k \in Calls :
        /\ UndoesEntry(k) =>
               PostHistory(k) = SubSeq(log[k].pre.history, 1, Len(log[k].pre.history) - 1)
        /\ UndoOnEmpty(k) => PostHistory(k) = <<>>
        /\ PostHistory(k) # log[k].pre.history /\ ~IsUndo(k) =>
               IsPerform(k) /\ PostHistory(k) = Append(log[k].pre.history, EntryOf(k))

\* an undo on a history of two different entries
C10_Witness ==
    \E k \in Calls :
        /\ UndoesEntry(k)
        /\ Len(log[k].pre.history) >= 2
        /\ log[k].pre.history[1] # log[k].pre.history[2]
        /\ PostHistory(k) = <<log[k].pre.history[1]>>

\* C11 as stated: in every reachable state each item's location is one of
\* the valid storage locations known to the system.
C11_Original ==
    \A i \in ItemIds : items[i].location \in Locations

\* C11 as amended: each item's location starts as "Main Storage" and is in
\* every reachable state either "Main Storage" or the new_location some
\* constructed TransferItem was given, which may be any string; it is never
\* None.
C11_LocationIsDefaultOrATarget ==
    /\ Len(log) = 0 => \A i \in ItemIds : items[i].location = MainStorage
    /\ \A i \in ItemIds :
           /\ items[i].location # None
           /\ items[i].location \in
                  {MainStorage} \cup
                  {ops[o].new_location : o \in {p \in DOMAIN ops : ops[p].cls = "TransferItem"}}

\* an item moved twice and brought back one step by an undo
C11_Witness ==
    /\ Len(log) = 3
    /\ IsPerform(1) /\ IsPerform(2) /\ UndoesEntry(3)
    /\ log[1].item = "i1" /\ log[2].item = "i1"
    /\ log[1].operation # log[2].operation
    /\ items["i1"].location # MainStorage

\* t is the integer part of the Decimal amount, rounded toward zero:
\* |t| <= |amount| < |t| + 1 and t has the sign of the amount
IntegerParts(t, amount) ==
    /\ t \in Int
    /\ (amount >= 0 => t >= 0 /\ t * Scale <= amount /\ amount < (t + 1) * Scale)
    /\ (amount < 0 => t <= 0 /\ t * Scale >= amount /\ amount > (t - 1) * Scale)

\* C12: AddItem and RemoveItem, executed or undone, change the quantity by
\* the integer part of the amount rounded toward zero, for negative amounts
\* as well, so the quantity stays an integer.
C12_QuantityChangesByTruncatedAmount ==
    \A k \in Calls :
        ((Authorized(k) \/ UndoesEntry(k)) /\ ClassOf(k) \in {"AddItem", "RemoveItem"}) =>
            LET i == log[k].item
                delta == PostItems(k)[i].amount - log[k].pre.items[i].amount
                sign == IF (ClassOf(k) = "AddItem") = IsPerform(k) THEN 1 ELSE -1
            IN  /\ IntegerParts(sign * delta, log[k].amount)
                /\ PostItems(k)[i].amount \in Int

\* AddItem of 5.7 on quantity 10 gives 15, its undo gives 10, then an
\* operation with a negative fractional amount
C12_Witness ==
    /\ Scale = 10
    /\ Len(log) = 3
    /\ Authorized(1) /\ ClassOf(1) = "AddItem" /\ log[1].item = "i1" /\ log[1].amount = 57
    /\ log[1].pre.items["i1"].amount = 10
    /\ log[2].pre.items["i1"].amount = 15
    /\ UndoesEntry(2)
    /\ log[3].pre.items["i1"].amount = 10
    /\ Authorized(3) /\ ClassOf(3) = "RemoveItem" /\ log[3].amount = -23
    /\ items[log[3].item].amount = log[3].pre.items[log[3].item].amount + 2

\* the item fields a successful call k may change, by class, left as they were
OnlyOwnFieldChanged(k) ==
    LET i == log[k].item
        was == log[k].pre.items[i]
        now == PostItems(k)[i]
        cls == ClassOf(k)
    IN  /\ \A j \in ItemIds \ {i} : PostItems(k)[j] = log[k].pre.items[j]
        /\ now.name = was.name
        /\ cls \in {"AddItem", "RemoveItem"} => [now EXCEPT !.amount = was.amount] = was
        /\ cls = "TransferItem" => [now EXCEPT !.location = was.location] = was
        /\ cls = "AdjustPrice" => [now EXCEPT !.price = was.price] = was

\* C13 as stated: a successful perform_operation changes only the quantity
\* (AddItem / RemoveItem), the location (TransferItem) or the price
\* (AdjustPrice) of its item; the only other effect is the single history
\* append.
C13_Original ==
    \A k \in Calls :
        (Authorized(k) /\ ~log[k].raised) =>
            /\ OnlyOwnFieldChanged(k)
            /\ PostHistory(k) = Append(log[k].pre.history, EntryOf(k))
            /\ log[k].printed = <<>>
            /\ PostOps(k) = log[k].pre.ops

\* C13 as amended: the same, and one more effect: a TransferItem /
\* AdjustPrice call overwrites its own instance's saved old_location /
\* old_price with the item's value before the call; no other instance and
\* no other attribute changes.
C13_FrameWithSavedValue ==
    \A k \in Calls :
        (Authorized(k) /\ ~log[k].raised) =>
            LET o == log[k].operation
                was == log[k].pre.items[log[k].item]
                cls == ClassOf(k)
            IN  /\ OnlyOwnFieldChanged(k)
                /\ PostHistory(k) = Append(log[k].pre.history, EntryOf(k))
                /\ log[k].printed = <<>>
                /\ PostOps(k) =
                       CASE cls = "TransferItem" ->
                                [log[k].pre.ops EXCEPT ![o].old_location = was.location]
                         [] cls = "AdjustPrice" ->
                                [log[k].pre.ops EXCEPT ![o].old_price = was.price]
                         [] OTHER -> log[k].pre.ops

\* a transfer after another entry that changes its instance's saved location,
\* and an AddItem call that leaves every instance alone
C13_Witness ==
    /\ \E k \in Calls :
           /\ Authorized(k) /\ ClassOf(k) = "TransferItem"
           /\ log[k].pre.history # <<>>
           /\ PostOps(k) # log[k].pre.ops
           /\ PostItems(k) # log[k].pre.items
    /\ \E k \in Calls : Authorized(k) /\ ClassOf(k) = "AddItem" /\ log[k].role = "staff"

\* the stack the first n calls of the log give: a perform_operation that is
\* not a denied Reprice pushes its entry, an undo pops when there is one
RECURSIVE Replay(_)
Replay(n) ==
    IF n = 0 THEN <<>>
    ELSE LET h == Replay(n - 1)
         IN  CASE Authorized(n) -> Append(h, EntryOf(n))
               [] IsUndo(n) /\ h # <<>> -> SubSeq(h, 1, Len(h) - 1)
               [] OTHER -> h

\* C14: the history is, in insertion order, the entries of the successful
\* perform_operation calls not yet undone; its length is the number of
\* successful performs minus the number of undos called on a non-empty
\* history.
C14_HistoryIsStackOfApplied ==
    /\ history = Replay(Len(log))
    /\ Len(history) = Cardinality({k \in Calls : Authorized(k)})
                      - Cardinality({k \in Calls : UndoesEntry(k)})

\* two entries recorded, a denied call, one entry undone, another recorded
C14_Witness ==
    /\ Len(log) = 5
    /\ Authorized(1) /\ Authorized(2) /\ NonAdminReprice(3) /\ UndoesEntry(4) /\ Authorized(5)
    /\ EntryOf(1) # EntryOf(5)
    /\ history = <<EntryOf(1), EntryOf(5)>>

\* the items the entries of a history refer to
ItemsIn(h) == {h[n].item : n \in DOMAIN h}

\* C15: with operations recorded against several items, undo_last_operation
\* changes only the item of the popped entry; every other item the history
\* refers to keeps all its fields.
C15_UndoTouchesOnlyPoppedItem ==
    \A k \in Calls :
        UndoesEntry(k) =>
            LET h == log[k].pre.history
                e == h[Len(h)]
            IN  \A i \in (ItemsIn(h) \cup ItemIds) \ {e.item} :
                    PostItems(k)[i] = log[k].pre.items[i]

\* entries for two items, both changed, the undo changes the second only
C15_Witness ==
    /\ Len(log) = 3
    /\ Authorized(1) /\ Authorized(2) /\ UndoesEntry(3)
    /\ log[1].item # log[2].item
    /\ log[3].pre.items[log[1].item] # InitItems[log[1].item]
    /\ items[log[1].item] = log[3].pre.items[log[1].item]
    /\ items[log[2].item] # log[3].pre.items[log[2].item]

\* the latest call before call k that executed instance o
LastExecute(o, k) ==
    LET S == {m \in 1..(k - 1) : Authorized(m) /\ log[m].operation = o}
    IN  CHOOSE m \in S : \A n \in S : n <= m

\* C16: a TransferItem / AdjustPrice instance keeps a single saved value:
\* every execute overwrites it with the item's current value, undo does not
\* clear it, and undo writes back the value saved by the instance's most
\* recent execute, whichever item or history entry the undo is for.
C16_SingleSavedValue ==
    \A k \in Calls :
        /\ (Authorized(k) /\ ClassOf(k) = "TransferItem") =>
               PostOps(k)[log[k].operation].old_location = log[k].pre.items[log[k].item].location
        /\ (Authorized(k) /\ ClassOf(k) = "AdjustPrice") =>
               PostOps(k)[log[k].operation].old_price = log[k].pre.items[log[k].item].price
        /\ UndoesEntry(k) =>
               LET o == log[k].operation
                   m == LastExecute(o, k)
                   saved == log[m].pre.items[log[m].item]
                   now == PostItems(k)[log[k].item]
               IN  /\ PostOps(k) = log[k].pre.ops
                   /\ ClassOf(k) = "TransferItem" => now.location = saved.location
                   /\ ClassOf(k) = "AdjustPrice" => now.price = saved.price

\* one AdjustPrice instance executed on both items, both entries undone: the
\* first item ends with the price the second had
C16_Witness ==
    /\ Len(log) = 4
    /\ Authorized(1) /\ Authorized(2) /\ UndoesEntry(3) /\ UndoesEntry(4)
    /\ ClassOf(1) = "AdjustPrice" /\ log[2].operation = log[1].operation
    /\ log[1].item = "i1" /\ log[2].item = "i2"
    /\ items["i1"].price = InitItems["i2"].price
    /\ items["i1"].price # InitItems["i1"].price
    /\ ops[log[1].operation].old_price = InitItems["i2"].price

\* the log is n >= 1 perform_operation calls followed by as many undos as
\* there were successful performs
PerformsThenAllUndone ==
    \E n \in 1..Len(log) :
        /\ \A k \in 1..n : IsPerform(k)
        /\ \A k \in (n + 1)..Len(log) : IsUndo(k)
        /\ Len(log) - n = Cardinality({k \in 1..n : Authorized(k)})

\* no TransferItem / AdjustPrice instance was executed by two calls
SavingInstancesUsedOnce ==
    \A j, k \in Calls :
        (Authorized(j) /\ Authorized(k) /\ j # k /\ log[j].operation = log[k].operation) =>
            ClassOf(j) \in {"AddItem", "RemoveItem"}

\* C17: after successful perform_operation calls in which every
\* TransferItem / AdjustPrice instance is used at most once, as many undos
\* as there were successful performs restore every item to its initial state
\* and leave the history empty.
C17_UndoAllRestoresInitial ==
    (PerformsThenAllUndone /\ SavingInstancesUsedOnce) =>
        /\ items = InitItems
        /\ history = <<>>

\* a transfer, a price adjustment and an AddItem, all three undone
C17_Witness ==
    /\ Len(log) = 6
    /\ PerformsThenAllUndone /\ SavingInstancesUsedOnce
    /\ {ClassOf(k) : k \in 1..3} = {"TransferItem", "AdjustPrice", "AddItem"}
    /\ \A i \in ItemIds : log[4].pre.items[i] # InitItems[i]

\* C18: every TransferItem / AdjustPrice instance that appears in a history
\* entry has its saved value populated, so an undo driven by the manager
\* never sets an item's location or price to None.
C18_SavedValuePopulated ==
    /\ \A n \in DOMAIN history :
           LET op == ops[history[n].operation]
           IN  /\ op.cls = "TransferItem" => op.old_location # None
               /\ op.cls = "AdjustPrice" => op.old_price # NoneDec
    /\ \A k \in Calls :
           UndoesEntry(k) =>
               /\ PostItems(k)[log[k].item].location # None
               /\ PostItems(k)[log[k].item].price # NoneDec
    /\ \A i \in ItemIds : items[i].location # None /\ items[i].price # NoneDec

\* a TransferItem entry undone while an AdjustPrice entry stays recorded
C18_Witness ==
    /\ Len(log) = 3
    /\ Authorized(1) /\ ClassOf(1) = "AdjustPrice"
    /\ Authorized(2) /\ ClassOf(2) = "TransferItem"
    /\ UndoesEntry(3)
    /\ Len(history) = 1
    /\ ops[history[1].operation].old_price = InitItems[history[1].item].price

\* at step k a perform_operation has executed its operation (step j) and not
\* yet appended the entry; 0 when there is none
ApplyInFlightAt(k) ==
    LET S == {j \in 1..(k - 1) :
                 KindOf(j) = "apply" /\ \A m \in (j + 1)..(k - 1) : KindOf(m) # "append"}
    IN  IF S = {} THEN 0 ELSE CHOOSE j \in S : TRUE

IsUndoStep(k) == KindOf(k) \in {"pop", "unapply", "undo"}

AppliedAndRecorded(k) ==
    /\ PostHistory(k) = Append(log[k].pre.history, EntryOf(k))
    /\ log[k].printed = <<>>
    /\ ~log[k].raised

\* a RemoveItem of more than the item holds
Overdraws(k) ==
    /\ IsPerform(k) /\ ClassOf(k) = "RemoveItem"
    /\ Trunc(log[k].amount) > log[k].pre.items[log[k].item].amount

\* an admin's AdjustPrice by a negative amount larger than the price
Underprices(k) ==
    /\ IsPerform(k) /\ ClassOf(k) = "AdjustPrice" /\ log[k].role = "admin"
    /\ log[k].amount < 0
    /\ 0 - log[k].amount > log[k].pre.items[log[k].item].price[1]

\* C20: no operation is rejected because of its result.  A RemoveItem of
\* more than the current quantity and an AdjustPrice by a negative amount
\* larger than the price are applied and recorded like any other, leaving a
\* negative quantity or price; the only perform_operation that records
\* nothing is a Reprice by a non-admin.
C20_NoRejectionByResult ==
    \A k \in Calls :
        LET i == log[k].item
            was == log[k].pre.items[i]
            now == PostItems(k)[i]
        IN  /\ Overdraws(k) =>
                   /\ now.amount = was.amount - Trunc(log[k].amount)
                   /\ now.amount < 0
                   /\ AppliedAndRecorded(k)
            /\ Underprices(k) =>
                   /\ now.price = Dec(was.price[1] + log[k].amount)
                   /\ now.price[1] < 0
                   /\ AppliedAndRecorded(k)
            /\ (IsPerform(k) /\ PostHistory(k) = log[k].pre.history) => NonAdminReprice(k)

\* an overdrawn removal and an underpricing Reprice have both been applied:
\* an item holds a negative quantity and a negative price, all calls recorded
C20_Witness ==
    /\ \E k \in Calls : Overdraws(k)
    /\ \E k \in Calls : Underprices(k)
    /\ \E i \in ItemIds : items[i].amount < 0 /\ items[i].price # NoneDec /\ items[i].price[1] < 0
    /\ Len(history) = Len(log)

====
